---- MODULE Spec2Model ----
(***************************************************************************)
(* Model of src/app.py: the /upload pipeline of the plate-discipline       *)
(* scorer.  Trackman pitch files are loaded and filtered, folded into a    *)
(* per-batter decisionScore, graded, keyed by a normalized name, merged    *)
(* into the TruMedia player table, re-ordered, sorted and exported.        *)
(*                                                                         *)
(* Encoding of values                                                      *)
(*   text (Batter, playerFullName) : a tuple of one-character strings;     *)
(*                                   a missing text cell is NaNStr         *)
(*   categorical (PitchCall, ...)  : a TLA+ string; missing is "NaN"       *)
(*   numbers                       : <<v>>; a missing number is NaN = <<>> *)
(*   decisionScore                 : in quarter points (0.25 -> 1)         *)
(*   plate location                : in hundredths (1.5 -> 150)            *)
(***************************************************************************)
EXTENDS Integers, Sequences, FiniteSets, TLC

VARIABLES trackman_files, trumedia_file, combined_df, scores, score_df,
          score_map, trumedia_df, reordered, trumedia_final, response,
          pc, calls

vars == <<trackman_files, trumedia_file, combined_df, scores, score_df,
          score_map, trumedia_df, reordered, trumedia_final, response,
          pc, calls>>

----------------------------------------------------------------------------
(* Missing values *)

NaNStr == <<"NaN">>
NaN == <<>>
NaNCat == "NaN"

Range(f) == {f[x] : x \in DOMAIN f}

----------------------------------------------------------------------------
(* Python string methods used by the pipeline *)

IsSpace(c) == c \in {" ", "\t"}

replace(s, ch) == SelectSeq(s, LAMBDA c : c # ch)

RECURSIVE SplitWs(_, _, _)
SplitWs(s, cur, acc) ==
    IF s = <<>>
    THEN (IF cur = <<>> THEN acc ELSE Append(acc, cur))
    ELSE IF IsSpace(Head(s))
         THEN SplitWs(Tail(s), <<>>, IF cur = <<>> THEN acc ELSE Append(acc, cur))
         ELSE SplitWs(Tail(s), Append(cur, Head(s)), acc)

split(s) == SplitWs(s, <<>>, <<>>)

Reversed(seq) == [i \in 1..Len(seq) |-> seq[Len(seq) + 1 - i]]

RECURSIVE join(_, _)
join(sep, toks) ==
    IF toks = <<>> THEN <<>>
    ELSE IF Len(toks) = 1 THEN toks[1]
    ELSE toks[1] \o sep \o join(sep, Tail(toks))

RECURSIVE lstrip(_)
lstrip(s) == IF s # <<>> /\ IsSpace(Head(s)) THEN lstrip(Tail(s)) ELSE s

RECURSIVE rstrip(_)
rstrip(s) ==
    IF s # <<>> /\ IsSpace(s[Len(s)]) THEN rstrip(SubSeq(s, 1, Len(s) - 1)) ELSE s

strip(s) == rstrip(lstrip(s))

\* Variant: only the first two tokens are swapped (a "Last, First" assumption).
NormalizedNameTwoTokens(b) ==
    LET toks == split(replace(replace(b, "\""), ","))
    IN  join(<<" ">>, Reversed(SubSeq(toks, 1, IF Len(toks) < 2 THEN Len(toks) ELSE 2)))

NormalizedName(b) ==
    join(<<" ">>, Reversed(split(replace(replace(b, "\""), ","))))

----------------------------------------------------------------------------
(* Results of a call that may raise *)

Ok(v) == [raised |-> FALSE, value |-> v]
Raise(e) == [raised |-> TRUE, value |-> e]

----------------------------------------------------------------------------
(* load_and_filter_trackman *)

desired_columns ==
    <<"Batter", "PlateLocHeight", "PlateLocSide", "PitchCall", "KorBB", "PlayResult">>

\* The missing value pandas puts in a cell of column c.
NaNOf(c) ==
    IF c \in {"Batter", "playerFullName"} THEN NaNStr
    ELSE IF c \in {"PlateLocHeight", "PlateLocSide", "decisionScore"} THEN NaN
    ELSE NaNCat

\* df.empty
IsEmpty(df) == Len(df.rows) = 0 \/ Len(df.columns) = 0

\* df.isna().all().all()
AllNA(df) ==
    \A i \in 1..Len(df.rows) : \A c \in Range(df.columns) : df.rows[i][c] = NaNOf(c)

\* One file: read_csv, keep the desired columns that are present, dropna on Batter.
FilterFile(f) ==
    IF ~f.parses THEN Raise("ParserError")
    ELSE LET kept == SelectSeq(desired_columns, LAMBDA c : c \in Range(f.columns))
             cut == [i \in 1..Len(f.rows) |-> [c \in Range(kept) |-> f.rows[i][c]]]
         IN  IF "Batter" \notin Range(kept) THEN Raise("KeyError")
             ELSE Ok([columns |-> kept,
                      rows |-> SelectSeq(cut, LAMBDA r : r["Batter"] # NaNStr)])

\* pd.concat(dfs, ignore_index=True): the union of the columns in order of first
\* appearance, the rows in order, a cell of a column a frame lacks filled with NaN.
RECURSIVE ConcatColumns(_, _)
ConcatColumns(dfs, acc) ==
    IF dfs = <<>> THEN acc
    ELSE ConcatColumns(Tail(dfs),
             acc \o SelectSeq(Head(dfs).columns, LAMBDA c : c \notin Range(acc)))

RECURSIVE ConcatRows(_, _)
ConcatRows(dfs, cols) ==
    IF dfs = <<>> THEN <<>>
    ELSE LET d == Head(dfs)
             fill == [i \in 1..Len(d.rows) |->
                         [c \in Range(cols) |->
                             IF c \in DOMAIN d.rows[i] THEN d.rows[i][c] ELSE NaNOf(c)]]
         IN  fill \o ConcatRows(Tail(dfs), cols)

concat(dfs) ==
    LET cols == ConcatColumns(dfs, <<>>)
    IN  [columns |-> cols, rows |-> ConcatRows(dfs, cols)]

RECURSIVE LoadLoop(_, _)
LoadLoop(file_objs, filtered_dfs) ==
    IF file_objs = <<>>
    THEN IF filtered_dfs = <<>>
         THEN Ok([columns |-> desired_columns, rows |-> <<>>])
         ELSE Ok(concat(filtered_dfs))
    ELSE LET r == FilterFile(Head(file_objs))
         IN  IF r.raised THEN r
             ELSE LoadLoop(Tail(file_objs),
                      IF ~IsEmpty(r.value) /\ ~AllNA(r.value)
                      THEN Append(filtered_dfs, r.value)
                      ELSE filtered_dfs)

load_and_filter_trackman(file_objs) == LoadLoop(file_objs, <<>>)

----------------------------------------------------------------------------
(* calculate_batter_scores *)

BallCalledPts == 1
CalledStrikeoutPenalty == 8
SwingingStrikeoutPenalty == 6
ChasePenalty == 4
HomeRunPts == 16

ZoneBottom == 150
ZoneTop == 360
ZoneLeft == -75
ZoneRight == 75

\* row.get(c, default)
get(row, c, default) == IF c \in DOMAIN row THEN row[c] ELSE default

\* pd.notna of a number cell (None and NaN are both missing)
notna(x) == x # NaN

InZone(height, side) ==
    /\ ZoneBottom <= height[1] /\ height[1] <= ZoneTop
    /\ ZoneLeft <= side[1] /\ side[1] <= ZoneRight

\* Variant: the HomeRun test is one more elif of the chain.
ContributionElif(row) ==
    LET pitch_call == row["PitchCall"]
        korbb == get(row, "KorBB", "")
        play_result == get(row, "PlayResult", "")
        height == get(row, "PlateLocHeight", NaN)
        side == get(row, "PlateLocSide", NaN)
    IN  IF pitch_call = "BallCalled" THEN BallCalledPts
        ELSE IF pitch_call = "StrikeCalled" /\ korbb = "Strikeout"
             THEN 0 - CalledStrikeoutPenalty
        ELSE IF pitch_call = "StrikeSwinging"
             THEN IF korbb = "Strikeout" THEN 0 - SwingingStrikeoutPenalty
                  ELSE IF notna(height) /\ notna(side)
                       THEN IF ~InZone(height, side) THEN 0 - ChasePenalty ELSE 0
                       ELSE 0
        ELSE IF play_result = "HomeRun" THEN HomeRunPts
        ELSE 0

\* What the if/elif chain and the HomeRun test add to the batter's score.
Contribution(row) ==
    LET pitch_call == row["PitchCall"]
        korbb == get(row, "KorBB", "")
        play_result == get(row, "PlayResult", "")
        height == get(row, "PlateLocHeight", NaN)
        side == get(row, "PlateLocSide", NaN)
        chain ==
            IF pitch_call = "BallCalled" THEN BallCalledPts
            ELSE IF pitch_call = "StrikeCalled" /\ korbb = "Strikeout"
                 THEN 0 - CalledStrikeoutPenalty
            ELSE IF pitch_call = "StrikeSwinging"
                 THEN IF korbb = "Strikeout" THEN 0 - SwingingStrikeoutPenalty
                      ELSE IF notna(height) /\ notna(side)
                           THEN IF ~InZone(height, side) THEN 0 - ChasePenalty ELSE 0
                           ELSE 0
            ELSE 0
    IN  chain + (IF play_result = "HomeRun" THEN HomeRunPts ELSE 0)

\* Variant: the entry is set to 0 on every row, not only on the batter's first.
ScoreRowReset(sc, row) ==
    LET batter == row["Batter"]
    IN  IF batter = NaNStr THEN sc
        ELSE LET sc1 == IF \E i \in 1..Len(sc) : sc[i].Batter = batter
                        THEN sc
                        ELSE Append(sc, [Batter |-> batter, decisionScore |-> 0])
                 k == CHOOSE i \in 1..Len(sc1) : sc1[i].Batter = batter
             IN  [sc1 EXCEPT ![k].decisionScore = Contribution(row)]

\* One iteration of the loop over df.iterrows(); sc is the dict scores in
\* insertion order, a sequence of [Batter, decisionScore].
ScoreRow(sc, row) ==
    LET batter == row["Batter"]
    IN  IF batter = NaNStr THEN sc
        ELSE LET sc1 == IF \E i \in 1..Len(sc) : sc[i].Batter = batter
                        THEN sc
                        ELSE Append(sc, [Batter |-> batter, decisionScore |-> 0])
                 k == CHOOSE i \in 1..Len(sc1) : sc1[i].Batter = batter
             IN  [sc1 EXCEPT ![k].decisionScore = @ + Contribution(row)]

RECURSIVE ScoreLoop(_, _)
ScoreLoop(rows, sc) ==
    IF rows = <<>> THEN sc ELSE ScoreLoop(Tail(rows), ScoreRow(sc, Head(rows)))

\* row['Batter'] and row['PitchCall'] raise KeyError on the first row of a frame
\* that lacks the column.
calculate_batter_scores(df) ==
    IF df.rows # <<>> /\ ~({"Batter", "PitchCall"} \subseteq Range(df.columns))
    THEN Raise("KeyError")
    ELSE Ok(ScoreLoop(df.rows, <<>>))

----------------------------------------------------------------------------
(* get_grade, on a score in quarter points *)

\* Variant: the comparisons are <=, so a cut point falls in the lower grade.
get_grade_le(score) ==
    IF score <= -2 THEN "C-"
    ELSE IF score <= 0 THEN "C"
    ELSE IF score <= 2 THEN "C+"
    ELSE IF score <= 4 THEN "B-"
    ELSE IF score <= 6 THEN "B"
    ELSE IF score <= 8 THEN "B+"
    ELSE IF score <= 10 THEN "A-"
    ELSE IF score <= 12 THEN "A"
    ELSE "A+"

get_grade(score) ==
    IF score < -2 THEN "C-"
    ELSE IF score < 0 THEN "C"
    ELSE IF score < 2 THEN "C+"
    ELSE IF score < 4 THEN "B-"
    ELSE IF score < 6 THEN "B"
    ELSE IF score < 8 THEN "B+"
    ELSE IF score < 10 THEN "A-"
    ELSE IF score < 12 THEN "A"
    ELSE "A+"

----------------------------------------------------------------------------
(* upload: the request handler, one action per numbered step of its body.  *)
(* An exception in a step is caught by the handler's except clause, which  *)
(* answers 500 with the message; the step's action includes that answer.   *)

Steps == {"load", "score", "score_df", "merge", "reorder", "sort", "export"}

None == [status |-> 0, text |-> "", attachment |-> <<>>]

ErrorResponse(e) == [status |-> 500, text |-> e, attachment |-> <<>>]

Called(step) == [calls EXCEPT ![step] = @ + 1]

\* #1 combined_df = load_and_filter_trackman(trackman_files)
LoadTrackman ==
    /\ pc = "load"
    /\ LET r == load_and_filter_trackman(trackman_files)
       IN  IF r.raised
           THEN /\ response' = ErrorResponse(r.value)
                /\ pc' = "done"
                /\ UNCHANGED combined_df
           ELSE /\ combined_df' = r.value
                /\ pc' = "score"
                /\ UNCHANGED response
    /\ calls' = Called("load")
    /\ UNCHANGED <<trackman_files, trumedia_file, scores, score_df, score_map,
                   trumedia_df, reordered, trumedia_final>>

\* #1 scores = calculate_batter_scores(combined_df)
CalculateScores ==
    /\ pc = "score"
    /\ LET r == calculate_batter_scores(combined_df)
       IN  IF r.raised
           THEN /\ response' = ErrorResponse(r.value)
                /\ pc' = "done"
                /\ UNCHANGED scores
           ELSE /\ scores' = r.value
                /\ pc' = "score_df"
                /\ UNCHANGED response
    /\ calls' = Called("score")
    /\ UNCHANGED <<trackman_files, trumedia_file, combined_df, score_df, score_map,
                   trumedia_df, reordered, trumedia_final>>

\* score_df: one row per item of scores, with Grade and NormalizedName
ScoreFrame(sc) ==
    [i \in 1..Len(sc) |->
        [Batter |-> sc[i].Batter,
         decisionScore |-> sc[i].decisionScore,
         Grade |-> get_grade(sc[i].decisionScore),
         NormalizedName |-> NormalizedName(sc[i].Batter)]]

\* Variant: the first item with a key is kept (dict.setdefault).
RECURSIVE ScoreMapKeepFirst(_, _)
ScoreMapKeepFirst(sdf, m) ==
    IF sdf = <<>> THEN m
    ELSE LET r == Head(sdf)
             item == [Grade |-> r.Grade, decisionScore |-> r.decisionScore]
         IN  ScoreMapKeepFirst(Tail(sdf),
                 [k \in DOMAIN m \cup {r.NormalizedName} |->
                     IF k \in DOMAIN m THEN m[k] ELSE item])

\* The dict comprehension over zip(NormalizedName, Grade, decisionScore): a later
\* item with an equal key replaces the earlier one.
RECURSIVE ScoreMap(_, _)
ScoreMap(sdf, m) ==
    IF sdf = <<>> THEN m
    ELSE LET r == Head(sdf)
             item == [Grade |-> r.Grade, decisionScore |-> r.decisionScore]
         IN  ScoreMap(Tail(sdf),
                 [k \in DOMAIN m \cup {r.NormalizedName} |->
                     IF k = r.NormalizedName THEN item ELSE m[k]])

\* #2 score_df and score_map
BuildScoreMap ==
    /\ pc = "score_df"
    /\ score_df' = ScoreFrame(scores)
    /\ score_map' = ScoreMap(ScoreFrame(scores), <<>>)
    /\ pc' = "merge"
    /\ calls' = Called("score_df")
    /\ UNCHANGED <<trackman_files, trumedia_file, combined_df, scores,
                   trumedia_df, reordered, trumedia_final, response>>

\* df[c] = vals: the column is replaced where it is, or appended when new.
SetColumn(df, c, vals) ==
    [columns |-> IF c \in Range(df.columns) THEN df.columns ELSE Append(df.columns, c),
     rows |-> [i \in 1..Len(df.rows) |->
                  [index |-> df.rows[i].index,
                   cells |-> [k \in DOMAIN df.rows[i].cells \cup {c} |->
                                 IF k = c THEN vals[i] ELSE df.rows[i].cells[k]]]]]

\* pd.read_csv of the TruMedia file: a RangeIndex 0..n-1 labels the rows.
ReadTruMedia(f) ==
    [columns |-> f.columns,
     rows |-> [i \in 1..Len(f.rows) |-> [index |-> i - 1, cells |-> f.rows[i]]]]

\* Series.str.strip(): NaN stays NaN
StrStrip(v) == IF v = NaNStr THEN NaNStr ELSE strip(v)

\* score_map.get(name, {}).get("Grade", np.nan)
LookupGrade(m, name) == IF name \in DOMAIN m THEN m[name].Grade ELSE NaNCat

\* Variant: a player without a score gets 0.
LookupScoreZero(m, name) == IF name \in DOMAIN m THEN <<m[name].decisionScore>> ELSE <<0>>

\* score_map.get(name, {}).get("decisionScore", np.nan)
LookupScore(m, name) == IF name \in DOMAIN m THEN <<m[name].decisionScore>> ELSE NaN

\* A column read from CSV whose cells are all empty is float64, and .str raises.
StrAccessorRaises(df, c) ==
    /\ df.rows # <<>>
    /\ \A i \in 1..Len(df.rows) : df.rows[i].cells[c] = NaNStr

Merged(f, m) ==
    LET df0 == ReadTruMedia(f)
        n == Len(df0.rows)
        df1 == SetColumn(df0, "NormalizedName",
                   [i \in 1..n |-> StrStrip(df0.rows[i].cells["playerFullName"])])
        grades == [i \in 1..n |->
                      LookupGrade(m, df1.rows[i].cells["NormalizedName"])]
        decision_scores ==
            [i \in 1..n |-> LookupScore(m, df1.rows[i].cells["NormalizedName"])]
    IN  SetColumn(SetColumn(df1, "Grade", grades), "decisionScore", decision_scores)

\* #3 trumedia_df with NormalizedName, Grade and decisionScore
MergeTruMedia ==
    /\ pc = "merge"
    /\ IF ~trumedia_file.parses
       THEN /\ response' = ErrorResponse("ParserError")
            /\ pc' = "done"
            /\ UNCHANGED trumedia_df
       ELSE IF "playerFullName" \notin Range(trumedia_file.columns)
       THEN /\ response' = ErrorResponse("KeyError")
            /\ pc' = "done"
            /\ UNCHANGED trumedia_df
       ELSE IF StrAccessorRaises(ReadTruMedia(trumedia_file), "playerFullName")
       THEN /\ response' = ErrorResponse("AttributeError")
            /\ pc' = "done"
            /\ UNCHANGED trumedia_df
       ELSE /\ trumedia_df' = Merged(trumedia_file, score_map)
            /\ pc' = "reorder"
            /\ UNCHANGED response
    /\ calls' = Called("merge")
    /\ UNCHANGED <<trackman_files, trumedia_file, combined_df, scores, score_df,
                   score_map, reordered, trumedia_final>>

Min(a, b) == IF a < b THEN a ELSE b

\* list.index(x) + 1, as a position counted from 1
IndexAfter(cols, x) == CHOOSE i \in 1..Len(cols) : cols[i] = x

\* Variant: the new columns are put before playerFirstName.
ReorderedBefore(columns) ==
    LET insert_index == IndexAfter(columns, "playerFirstName") - 1
        cols == SelectSeq(columns,
                    LAMBDA c : c \notin {"Grade", "decisionScore", "NormalizedName"})
        k == Min(insert_index, Len(cols))
    IN  SubSeq(cols, 1, k) \o <<"Grade", "decisionScore">> \o SubSeq(cols, k + 1, Len(cols))

Reordered(columns) ==
    LET insert_index == IndexAfter(columns, "playerFirstName")
        cols == SelectSeq(columns,
                    LAMBDA c : c \notin {"Grade", "decisionScore", "NormalizedName"})
        k == Min(insert_index, Len(cols))
    IN  SubSeq(cols, 1, k) \o <<"Grade", "decisionScore">> \o SubSeq(cols, k + 1, Len(cols))

\* Variant: without playerFirstName the new columns go to the end and the run goes on.
ReorderColumnsLenient ==
    /\ pc = "reorder"
    /\ reordered' =
           IF "playerFirstName" \in Range(trumedia_df.columns)
           THEN Reordered(trumedia_df.columns)
           ELSE SelectSeq(trumedia_df.columns,
                    LAMBDA c : c \notin {"Grade", "decisionScore", "NormalizedName"})
                \o <<"Grade", "decisionScore">>
    /\ pc' = "sort"
    /\ calls' = Called("reorder")
    /\ UNCHANGED <<trackman_files, trumedia_file, combined_df, scores, score_df,
                   score_map, trumedia_df, trumedia_final, response>>

\* #4 the column order
ReorderColumns ==
    /\ pc = "reorder"
    /\ IF "playerFirstName" \notin Range(trumedia_df.columns)
       THEN /\ response' = ErrorResponse("ValueError")
            /\ pc' = "done"
            /\ UNCHANGED reordered
       ELSE /\ reordered' = Reordered(trumedia_df.columns)
            /\ pc' = "sort"
            /\ UNCHANGED response
    /\ calls' = Called("reorder")
    /\ UNCHANGED <<trackman_files, trumedia_file, combined_df, scores, score_df,
                   score_map, trumedia_df, trumedia_final>>

\* trumedia_df[reordered]
SelectColumns(df, cols) ==
    [columns |-> cols,
     rows |-> [i \in 1..Len(df.rows) |->
                  [index |-> df.rows[i].index,
                   cells |-> [c \in Range(cols) |-> df.rows[i].cells[c]]]]]

Orderings(n) ==
    {p \in [1..n -> 1..n] : \A i, j \in 1..n : i # j => p[i] # p[j]}

\* sort_values(by="decisionScore", ascending=False) with the default
\* kind="quicksort" and na_position="last": the rows with a score in descending
\* order, rows of equal score in an order the sort does not promise, then the
\* rows without a score in their original order.
SortOutcomes(rows) ==
    LET n == Len(rows)
        score(i) == rows[i].cells["decisionScore"]
    IN  {[i \in 1..n |-> rows[p[i]]] : p \in
            {q \in Orderings(n) :
                \A i, j \in 1..n : i < j =>
                    /\ score(q[i]) = NaN => score(q[j]) = NaN
                    /\ score(q[i]) # NaN /\ score(q[j]) # NaN
                          => score(q[i])[1] >= score(q[j])[1]
                    /\ score(q[i]) = NaN /\ score(q[j]) = NaN => q[i] < q[j]}}

\* #4 trumedia_final
SortValues ==
    /\ pc = "sort"
    /\ \E sorted \in SortOutcomes(SelectColumns(trumedia_df, reordered).rows) :
           trumedia_final' = [columns |-> reordered, rows |-> sorted]
    /\ pc' = "export"
    /\ calls' = Called("sort")
    /\ UNCHANGED <<trackman_files, trumedia_file, combined_df, scores, score_df,
                   score_map, trumedia_df, reordered, response>>

\* to_excel(index=False): the header and the cells, row by row; the cells of a
\* row without a score are filled gray. The sheet does not hold the index: the
\* field index records, for each sheet row, the pandas index of the input row
\* it came from.
Workbook(df) ==
    [sheet_name |-> "TruMedia",
     columns |-> df.columns,
     rows |-> [i \in 1..Len(df.rows) |-> df.rows[i].cells],
     index |-> [i \in 1..Len(df.rows) |-> df.rows[i].index],
     gray |-> {i \in 1..Len(df.rows) : df.rows[i].cells["decisionScore"] = NaN}]

\* #5 the workbook, sent as players_stats.xlsx
ExportExcel ==
    /\ pc = "export"
    /\ response' = [status |-> 200, text |-> "", attachment |-> Workbook(trumedia_final)]
    /\ pc' = "done"
    /\ calls' = Called("export")
    /\ UNCHANGED <<trackman_files, trumedia_file, combined_df, scores, score_df,
                   score_map, trumedia_df, reordered, trumedia_final>>

Next ==
    \/ LoadTrackman
    \/ CalculateScores
    \/ BuildScoreMap
    \/ MergeTruMedia
    \/ ReorderColumns
    \/ SortValues
    \/ ExportExcel

\* The state when the handler is entered with the uploaded files.
Start(inp) ==
    /\ trackman_files = inp.trackman
    /\ trumedia_file = inp.trumedia
    /\ combined_df = [columns |-> <<>>, rows |-> <<>>]
    /\ scores = <<>>
    /\ score_df = <<>>
    /\ score_map = <<>>
    /\ trumedia_df = [columns |-> <<>>, rows |-> <<>>]
    /\ reordered = <<>>
    /\ trumedia_final = [columns |-> <<>>, rows |-> <<>>]
    /\ response = None
    /\ pc = "load"
    /\ calls = [s \in Steps |-> 0]

----------------------------------------------------------------------------
(* Uploaded files *)

SeqsUpTo(S, n) == UNION {[1..k -> S] : k \in 0..n}

PitchRow(batter, pitch_call, korbb, play_result, height, side) ==
    [Batter |-> batter, PlateLocHeight |-> height, PlateLocSide |-> side,
     PitchCall |-> pitch_call, KorBB |-> korbb, PlayResult |-> play_result]

TrackmanFile(rows) == [parses |-> TRUE, columns |-> desired_columns, rows |-> rows]

Unparseable == [parses |-> FALSE, columns |-> <<>>, rows |-> <<>>]

\* Pitches by what they score: +0.25, -1, -1.5, +4 and 0
Ball(b) == PitchRow(b, "BallCalled", "Undefined", "Undefined", <<250>>, <<100>>)
Chase(b) == PitchRow(b, "StrikeSwinging", "Undefined", "Undefined", <<400>>, <<0>>)
SwingK(b) == PitchRow(b, "StrikeSwinging", "Strikeout", "Undefined", <<250>>, <<0>>)
Homer(b) == PitchRow(b, "InPlay", "Undefined", "HomeRun", <<250>>, <<0>>)
Foul(b) == PitchRow(b, "FoulBall", "Undefined", "Undefined", NaN, NaN)

\* Raw Batter names and player names, as text
LeeAl == <<"L", "e", "e", ",", " ", "A", "l">>
LeeAlSpaced == <<"L", "e", "e", ",", " ", " ", "A", "l">>
LeeAlQuoted == <<"\"", "L", "e", "e", ",", " ", "A", "l", "\"">>
RoyBo == <<"R", "o", "y", ",", " ", "B", "o">>
SmithJohn == <<"S", "m", "i", "t", "h", ",", " ", "J", "o", "h", "n">>
OBrienPat == <<"O", "'", "B", "r", "i", "e", "n", ",", " ", "P", "a", "t">>
DeLaCruzJo == <<"d", "e", " ", "l", "a", " ", "C", "r", "u", "z", ",", " ", "J", "o">>

AlLee == <<"A", "l", " ", "L", "e", "e">>
AlLeePadded == <<" ", "A", "l", " ", "L", "e", "e", "\t">>
AlLeeLower == <<"a", "l", " ", "l", "e", "e">>
BoRoy == <<"B", "o", " ", "R", "o", "y">>
CyPoe == <<"C", "y", " ", "P", "o", "e">>

PlayerRow(name) == [playerFullName |-> name, playerFirstName |-> "First", teamName |-> "DAV"]

Roster(names) ==
    [parses |-> TRUE,
     columns |-> <<"playerFullName", "playerFirstName", "teamName">>,
     rows |-> [i \in 1..Len(names) |-> PlayerRow(names[i])]]

----------------------------------------------------------------------------
(* Specifications: the handler run on each upload of a bounded family *)

MaxPitches == 2
MaxPlayers == 2

MergePitches ==
    {k \in UNION {{Foul(b), Chase(b)} : b \in {LeeAl, LeeAlSpaced, RoyBo}} : TRUE}

MergePlayers == {AlLee, AlLeePadded, AlLeeLower, CyPoe, NaNStr}

MergeUploads ==
    {[trackman |-> <<TrackmanFile(rows)>>, trumedia |-> Roster(names)] :
        rows \in SeqsUpTo(MergePitches, MaxPitches),
        names \in SeqsUpTo(MergePlayers, MaxPlayers)}

Init == \E inp \in MergeUploads : Start(inp)

Spec == Init /\ [][Next]_vars

\* One pitch, every combination of its fields around the rule table's tests
PitchCalls == {"BallCalled", "StrikeCalled", "StrikeSwinging", "FoulBall", "InPlay", NaNCat}
KorBBs == {"Strikeout", "Walk", "Undefined", NaNCat}
PlayResults == {"HomeRun", "Single", "Undefined", NaNCat}
Heights == {NaN, <<149>>, <<150>>, <<250>>, <<360>>, <<361>>}
Sides == {NaN, <<-76>>, <<-75>>, <<0>>, <<75>>, <<76>>}

RowUploads ==
    {[trackman |-> <<TrackmanFile(<<PitchRow(LeeAl, p, k, r, h, sd)>>)>>,
      trumedia |-> Roster(<<AlLee, CyPoe>>)] :
        p \in PitchCalls, k \in KorBBs, r \in PlayResults, h \in Heights, sd \in Sides}

InitRow == \E inp \in RowUploads : Start(inp)

SpecRow == InitRow /\ [][Next]_vars

\* Several pitches of several batters, rows without a Batter among them
MaxFoldRows == 3

FoldPitches ==
    UNION {{Ball(b), Chase(b), Homer(b)} : b \in {LeeAl, RoyBo, NaNStr}}

FoldUploads ==
    {[trackman |-> <<TrackmanFile(rows)>>, trumedia |-> Roster(<<AlLee, BoRoy>>)] :
        rows \in SeqsUpTo(FoldPitches, MaxFoldRows)}

InitFold == \E inp \in FoldUploads : Start(inp)

SpecFold == InitFold /\ [][Next]_vars

\* One batter whose pitches add up to scores on both sides of every cut point
MaxGradeRows == 3

GradePitches == {Ball(LeeAl), Chase(LeeAl), SwingK(LeeAl), Homer(LeeAl), Foul(LeeAl)}

GradeUploads ==
    {[trackman |-> <<TrackmanFile(rows)>>, trumedia |-> Roster(<<AlLee, CyPoe>>)] :
        rows \in SeqsUpTo(GradePitches, MaxGradeRows)}

InitGrade == \E inp \in GradeUploads : Start(inp)

SpecGrade == InitGrade /\ [][Next]_vars

\* Every raw Batter name over a small alphabet, and three names in full
MaxNameLen == 5

NameAlphabet == {"a", "b", " ", "\t", ",", "\"", "'"}

RawNames ==
    (SeqsUpTo(NameAlphabet, MaxNameLen) \ {<<>>}) \cup {SmithJohn, OBrienPat, DeLaCruzJo}

NameUploads ==
    {[trackman |-> <<TrackmanFile(<<Ball(b)>>)>>, trumedia |-> Roster(<<AlLee>>)] :
        b \in RawNames}

InitNames == \E inp \in NameUploads : Start(inp)

SpecNames == InitNames /\ [][Next]_vars

\* Batters whose raw names differ and whose normalized names are equal
MaxCollideRows == 3

CollidePitches ==
    UNION {{Ball(b), Chase(b)} : b \in {LeeAl, LeeAlSpaced, LeeAlQuoted}}

CollideUploads ==
    {[trackman |-> <<TrackmanFile(rows)>>, trumedia |-> Roster(<<AlLee, CyPoe>>)] :
        rows \in SeqsUpTo(CollidePitches, MaxCollideRows)}

InitCollide == \E inp \in CollideUploads : Start(inp)

SpecCollide == InitCollide /\ [][Next]_vars

\* TruMedia tables of every column order, the added names among the columns
MaxColumns == 4

ColumnNames ==
    {"playerFullName", "playerFirstName", "teamName", "Grade", "decisionScore",
     "NormalizedName"}

ColumnOrders ==
    {cs \in SeqsUpTo(ColumnNames, MaxColumns) :
        \A i, j \in 1..Len(cs) : i # j => cs[i] # cs[j]}

Table(cols, names) ==
    [parses |-> TRUE,
     columns |-> cols,
     rows |-> [i \in 1..Len(names) |->
                  [c \in Range(cols) |-> IF c = "playerFullName" THEN names[i] ELSE "old"]]]

ColumnUploads ==
    {[trackman |-> <<TrackmanFile(<<Ball(LeeAl)>>)>>,
      trumedia |-> Table(cols, <<CyPoe, AlLee>>)] : cols \in ColumnOrders}

InitColumns == \E inp \in ColumnUploads : Start(inp)

SpecColumns == InitColumns /\ [][Next]_vars

\* Uploads in which a stage fails
MaxFiles == 2

Without(f, c) ==
    [parses |-> f.parses,
     columns |-> SelectSeq(f.columns, LAMBDA k : k # c),
     rows |-> [i \in 1..Len(f.rows) |-> [k \in DOMAIN f.rows[i] \ {c} |-> f.rows[i][k]]]]

ErrorFiles ==
    {Unparseable,
     TrackmanFile(<<Ball(LeeAl)>>),
     TrackmanFile(<<>>),
     Without(TrackmanFile(<<Ball(LeeAl)>>), "Batter"),
     Without(TrackmanFile(<<Ball(LeeAl)>>), "PitchCall")}

ErrorRosters ==
    {Unparseable,
     Roster(<<AlLee, CyPoe>>),
     Roster(<<>>),
     Roster(<<NaNStr>>),
     Without(Roster(<<AlLee, CyPoe>>), "playerFullName"),
     Without(Roster(<<AlLee, CyPoe>>), "playerFirstName"),
     Without(Without(Roster(<<AlLee, CyPoe>>), "playerFullName"), "playerFirstName")}

ErrorUploads ==
    {[trackman |-> fs, trumedia |-> t] :
        fs \in SeqsUpTo(ErrorFiles, MaxFiles), t \in ErrorRosters}

InitErrors == \E inp \in ErrorUploads : Start(inp)

SpecErrors == InitErrors /\ [][Next]_vars

\* Trackman files with every subset of the recognized columns that has Batter,
\* with or without a column the loader does not know
MaxSubsetFiles == 2

Project(f, cs) ==
    [parses |-> f.parses,
     columns |-> SelectSeq(f.columns, LAMBDA k : k \in cs),
     rows |-> [i \in 1..Len(f.rows) |-> [k \in DOMAIN f.rows[i] \cap cs |-> f.rows[i][k]]]]

WideFile ==
    [parses |-> TRUE,
     columns |-> Append(desired_columns, "Pitcher"),
     rows |-> <<[c \in Range(desired_columns) \cup {"Pitcher"} |->
                   IF c = "Pitcher" THEN "old" ELSE Chase(LeeAl)[c]]>>]

SubsetFiles ==
    {Project(WideFile, cs \cup {"Batter"}) :
        cs \in SUBSET ((Range(desired_columns) \ {"Batter"}) \cup {"Pitcher"})}

SubsetUploads ==
    {[trackman |-> fs, trumedia |-> Roster(<<AlLee>>)] :
        fs \in SeqsUpTo(SubsetFiles, MaxSubsetFiles) \ {<<>>}}

InitSubsets == \E inp \in SubsetUploads : Start(inp)

SpecSubsets == InitSubsets /\ [][Next]_vars

----------------------------------------------------------------------------
(* Properties *)

\* calculate_batter_scores has returned (and did not raise)
Scored == calls["score"] = 1 /\ (pc = "done" => calls["score_df"] = 1)

\* score_df and score_map are built
Mapped == calls["score_df"] = 1

\* trumedia_df has its NormalizedName, Grade and decisionScore columns
MergeDone == calls["merge"] = 1 /\ (pc = "done" => calls["reorder"] = 1)

\* The handler has answered with the workbook
Sent == pc = "done" /\ response.status = 200

\* The rule table as the specification words it: base + bonus.
RuleTable(row) ==
    LET located == row.PlateLocHeight # NaN /\ row.PlateLocSide # NaN
        inside == /\ 150 <= row.PlateLocHeight[1] /\ row.PlateLocHeight[1] <= 360
                  /\ -75 <= row.PlateLocSide[1] /\ row.PlateLocSide[1] <= 75
        base == CASE row.PitchCall = "BallCalled" -> 1
                  [] row.PitchCall = "StrikeCalled" /\ row.KorBB = "Strikeout" -> -8
                  [] row.PitchCall = "StrikeSwinging" /\ row.KorBB = "Strikeout" -> -6
                  [] row.PitchCall = "StrikeSwinging" /\ row.KorBB # "Strikeout"
                        /\ located /\ ~inside -> -4
                  [] OTHER -> 0
        bonus == IF row.PlayResult = "HomeRun" THEN 16 ELSE 0
    IN  base + bonus

\* The number of base clauses of the rule table whose own test a row passes.
ClausesFired(row) ==
    LET located == row.PlateLocHeight # NaN /\ row.PlateLocSide # NaN
        inside == /\ 150 <= row.PlateLocHeight[1] /\ row.PlateLocHeight[1] <= 360
                  /\ -75 <= row.PlateLocSide[1] /\ row.PlateLocSide[1] <= 75
    IN  Cardinality({c \in {"ball", "called", "swingK", "chase"} :
            \/ c = "ball" /\ row.PitchCall = "BallCalled"
            \/ c = "called" /\ row.PitchCall = "StrikeCalled" /\ row.KorBB = "Strikeout"
            \/ c = "swingK" /\ row.PitchCall = "StrikeSwinging" /\ row.KorBB = "Strikeout"
            \/ c = "chase" /\ row.PitchCall = "StrikeSwinging" /\ row.KorBB # "Strikeout"
                  /\ located /\ ~inside})

\* C1: a single pitch row gives its batter exactly base + bonus of the rule
\* table (+0.25 ball, -2 called strikeout, -1.5 swinging strikeout, -1 swinging
\* strike located outside the zone, 0 otherwise; +4 for a HomeRun whichever base
\* clause fired), and at most one base clause applies to the row.
C1_RowContribution ==
    Scored =>
        LET row == trackman_files[1].rows[1]
        IN  /\ scores = <<[Batter |-> row.Batter, decisionScore |-> RuleTable(row)]>>
            /\ ClausesFired(row) <= 1

\* A swinging strike outside the zone that is also a HomeRun: -1 + 4 = 3.
C1_Witness ==
    /\ pc = "done"
    /\ trackman_files[1].rows[1].PitchCall = "StrikeSwinging"
    /\ trackman_files[1].rows[1].PlateLocHeight = <<361>>
    /\ trackman_files[1].rows[1].PlayResult = "HomeRun"
    /\ scores[1].decisionScore = 12

\* The scores as a mapping, without the order of insertion.
AsMap(sc) ==
    [b \in {sc[i].Batter : i \in 1..Len(sc)} |->
        sc[CHOOSE i \in 1..Len(sc) : sc[i].Batter = b].decisionScore]

RECURSIVE SumOf(_, _)
SumOf(rows, b) ==
    IF rows = <<>> THEN 0
    ELSE (IF Head(rows).Batter = b THEN Contribution(Head(rows)) ELSE 0)
         + SumOf(Tail(rows), b)

Permuted(rows, p) == [i \in 1..Len(rows) |-> rows[p[i]]]

FoldsExactly(rows, sc) ==
    /\ Cardinality({sc[i].Batter : i \in 1..Len(sc)}) = Len(sc)
    /\ {sc[i].Batter : i \in 1..Len(sc)}
          = {rows[j].Batter : j \in 1..Len(rows)} \ {NaNStr}
    /\ \A i \in 1..Len(sc) : sc[i].decisionScore = SumOf(rows, sc[i].Batter)
    /\ \A p \in Orderings(Len(rows)) :
          AsMap(ScoreLoop(Permuted(rows, p), <<>>)) = AsMap(sc)

\* C2: the scores are a mapping whose keys are exactly the distinct non-missing
\* Batter names of the rows and whose values are the sums of the contributions
\* of all and only the batter's rows; every permutation of the rows gives the
\* same mapping. Stated for the frame the handler scores and for the rows as
\* uploaded, rows without a Batter included.
C2_FoldIsSum ==
    Scored =>
        /\ FoldsExactly(combined_df.rows, scores)
        /\ FoldsExactly(trackman_files[1].rows,
                        calculate_batter_scores(trackman_files[1]).value)

\* Two batters, the rows of one around a row of the other.
C2_Witness ==
    /\ pc = "done"
    /\ Len(combined_df.rows) = 3
    /\ Len(scores) = 2
    /\ combined_df.rows[1].Batter = combined_df.rows[3].Batter
    /\ combined_df.rows[1].Batter # combined_df.rows[2].Batter
    /\ scores[1].decisionScore = 17

CutPoints == <<-2, 0, 2, 4, 6, 8, 10, 12>>
Grades == <<"C-", "C", "C+", "B-", "B", "B+", "A-", "A", "A+">>

\* The grade of the half-open interval a score lies in: each cut point at or
\* below the score moves it one grade up.
Bracket(score) ==
    Grades[1 + Cardinality({i \in 1..Len(CutPoints) : CutPoints[i] <= score})]

Rank(grade) == CHOOSE i \in 1..Len(Grades) : Grades[i] = grade

ScoreRange == (0 - 8 * (MaxGradeRows + 1)) .. (17 * (MaxGradeRows + 1))

\* C3: get_grade gives every score the grade of its half-open interval, a cut
\* point belonging to the higher grade, and never a lower grade to a higher
\* score: for the score of every batter of score_df, and for every score of
\* the range the uploads can reach.
C3_GradeIntervals ==
    Mapped =>
        /\ \A i \in 1..Len(score_df) :
              score_df[i].Grade = Bracket(score_df[i].decisionScore)
        /\ \A x \in ScoreRange :
              /\ get_grade(x) = Bracket(x)
              /\ Rank(get_grade(x)) <= Rank(get_grade(x + 1))

\* A batter whose score is the cut point -0.5 is graded C.
C3_Witness ==
    /\ pc = "done"
    /\ Len(score_df) = 1
    /\ score_df[1].decisionScore = -2
    /\ score_df[1].Grade = "C"

\* The tokens of a text: its maximal runs of characters that are not
\* whitespace, from left to right.
TokenStarts(t) ==
    {i \in 1..Len(t) : ~IsSpace(t[i]) /\ (i = 1 \/ IsSpace(t[i - 1]))}

TokenAt(t, i) ==
    SubSeq(t, i, CHOOSE j \in i..Len(t) :
                     /\ \A k \in i..j : ~IsSpace(t[k])
                     /\ (j = Len(t) \/ IsSpace(t[j + 1])))

Tokens(t) ==
    LET st == TokenStarts(t)
        nth(n) == CHOOSE i \in st : Cardinality({k \in st : k < i}) = n - 1
    IN  [n \in 1..Cardinality(st) |-> TokenAt(t, nth(n))]

\* The text without its double quotes and commas
Unpunctuated(t) == SelectSeq(t, LAMBDA c : c \notin {"\"", ","})

RECURSIVE TotalLen(_)
TotalLen(toks) == IF toks = <<>> THEN 0 ELSE Len(Head(toks)) + TotalLen(Tail(toks))

IsTokenReversal(raw, name) ==
    LET want == Tokens(Unpunctuated(raw))
    IN  /\ Tokens(name) = [i \in 1..Len(want) |-> want[Len(want) + 1 - i]]
        /\ \A i \in 1..Len(name) : name[i] \notin {"\t", "\"", ","}
        /\ Len(name) = TotalLen(want) + (IF want = <<>> THEN 0 ELSE Len(want) - 1)

JohnSmith == <<"J", "o", "h", "n", " ", "S", "m", "i", "t", "h">>
PatOBrien == <<"P", "a", "t", " ", "O", "'", "B", "r", "i", "e", "n">>
JoCruzLaDe == <<"J", "o", " ", "C", "r", "u", "z", " ", "l", "a", " ", "d", "e">>

\* C9: the NormalizedName of a raw Batter name has the tokens of the raw name
\* without its double quotes and commas, in reverse order, each unchanged
\* (apostrophes kept) and none dropped, joined by single spaces and nothing
\* else; "Smith, John" gives "John Smith", "O'Brien, Pat" gives "Pat O'Brien",
\* and a name of more than two tokens is reversed in full.
C9_TokenReversal ==
    Mapped =>
        \A i \in 1..Len(score_df) :
            /\ IsTokenReversal(score_df[i].Batter, score_df[i].NormalizedName)
            /\ score_df[i].Batter = SmithJohn => score_df[i].NormalizedName = JohnSmith
            /\ score_df[i].Batter = OBrienPat => score_df[i].NormalizedName = PatOBrien
            /\ score_df[i].Batter = DeLaCruzJo => score_df[i].NormalizedName = JoCruzLaDe

\* The four-token name "de la Cruz, Jo" has become "Jo Cruz la de".
C9_Witness ==
    /\ pc = "done"
    /\ score_df[1].Batter = DeLaCruzJo
    /\ score_df[1].NormalizedName = JoCruzLaDe
    /\ JoCruzLaDe \in DOMAIN score_map

\* The scored batters whose NormalizedName is the text name
Namesakes(name) ==
    {combined_df.rows[j].Batter : j \in 1..Len(combined_df.rows)}
        \cap {b \in {scores[i].Batter : i \in 1..Len(scores)} : NormalizedName(b) = name}

FirstRow(b) ==
    CHOOSE j \in 1..Len(combined_df.rows) :
        /\ combined_df.rows[j].Batter = b
        /\ \A k \in 1..(j - 1) : combined_df.rows[k].Batter # b

\* Among the namesakes, the batter whose first row comes last
LastComer(name) ==
    CHOOSE b \in Namesakes(name) : \A o \in Namesakes(name) : FirstRow(o) <= FirstRow(b)

Total(b) == SumOf(combined_df.rows, b)

\* The rows the merge has given the player table, by the index of the input row
MergedRows == trumedia_df.rows

\* C10: batters whose raw names differ and whose NormalizedNames are equal
\* share one entry of score_map, which holds the decisionScore and Grade of
\* the one of them whose first row comes last in the pitch data, and the
\* PlayerRecord of that name receives that entry: the scores of the namesakes
\* are not added together.
C10_LastNamesakeWins ==
    /\ Mapped =>
          /\ DOMAIN score_map = {score_df[i].NormalizedName : i \in 1..Len(score_df)}
          /\ \A name \in DOMAIN score_map :
                score_map[name] = [Grade |-> get_grade(Total(LastComer(name))),
                                   decisionScore |-> Total(LastComer(name))]
    /\ MergeDone =>
          \A i \in 1..Len(MergedRows) :
              LET name == StrStrip(MergedRows[i].cells["playerFullName"])
              IN  Namesakes(name) # {} =>
                      /\ MergedRows[i].cells["decisionScore"] = <<Total(LastComer(name))>>
                      /\ MergedRows[i].cells["Grade"] = get_grade(Total(LastComer(name)))

\* "Lee, Al" bats first and third, "Lee,  Al" second: Al Lee gets the score of
\* "Lee,  Al", whose only row is not the last row of the data.
C10_Witness ==
    /\ pc = "done"
    /\ Len(combined_df.rows) = 3
    /\ combined_df.rows[1].Batter = LeeAl
    /\ combined_df.rows[2].Batter = LeeAlSpaced
    /\ combined_df.rows[3].Batter = LeeAl
    /\ Total(LeeAl) = 2
    /\ Total(LeeAlSpaced) = -4
    /\ trumedia_df.rows[1].cells["decisionScore"] = <<-4>>
    /\ trumedia_df.rows[1].cells["Grade"] = "C-"

\* The row of the workbook that came from input row i (pandas index i - 1)
OutputRowsOf(i) ==
    {k \in 1..Len(response.attachment.rows) : response.attachment.index[k] = i - 1}

\* C4 as amended: the workbook has exactly one row per input PlayerRecord; a
\* row whose trimmed playerFullName equals the NormalizedName of a scored
\* batter gets the decisionScore and Grade of that batter, and when several
\* scored batters have that NormalizedName, of the one whose first row comes
\* last in the pitch data (a score of 0 is 0 with a grade); every other row
\* gets the missing marker for both; a batter no PlayerRecord names adds no row.
C4_MergeByExactName ==
    Sent =>
        /\ Len(response.attachment.rows) = Len(trumedia_file.rows)
        /\ \A i \in 1..Len(trumedia_file.rows) :
              /\ Cardinality(OutputRowsOf(i)) = 1
              /\ \A k \in OutputRowsOf(i) :
                    LET out == response.attachment.rows[k]
                        full == trumedia_file.rows[i].playerFullName
                        name == IF full = NaNStr THEN NaNStr ELSE strip(full)
                    IN  /\ out["playerFullName"] = full
                        /\ IF Namesakes(name) # {}
                           THEN /\ out["decisionScore"] = <<Total(LastComer(name))>>
                                /\ out["Grade"] = get_grade(Total(LastComer(name)))
                           ELSE /\ out["decisionScore"] = NaN
                                /\ out["Grade"] = NaNCat

\* C4 as first stated: a row whose trimmed playerFullName equals the
\* NormalizedName of a scored batter gets that batter's decisionScore and
\* Grade, whichever scored batter it is; every other row gets the missing
\* marker for both.
C4_Original ==
    Sent =>
        /\ Len(response.attachment.rows) = Len(trumedia_file.rows)
        /\ \A i \in 1..Len(trumedia_file.rows) :
              /\ Cardinality(OutputRowsOf(i)) = 1
              /\ \A k \in OutputRowsOf(i) :
                    LET out == response.attachment.rows[k]
                        full == trumedia_file.rows[i].playerFullName
                        name == IF full = NaNStr THEN NaNStr ELSE strip(full)
                    IN  /\ \A b \in Namesakes(name) :
                              /\ out["decisionScore"] = <<Total(b)>>
                              /\ out["Grade"] = get_grade(Total(b))
                        /\ Namesakes(name) = {} =>
                              /\ out["decisionScore"] = NaN
                              /\ out["Grade"] = NaNCat

\* A padded name matched to a batter whose score is 0, beside a player no
\* batter matches, while a scored batter ("Roy, Bo") has no PlayerRecord.
C4_Witness ==
    /\ Sent
    /\ Len(response.attachment.rows) = 2
    /\ \E k, l \in 1..2 :
          /\ response.attachment.rows[k]["playerFullName"] = AlLeePadded
          /\ response.attachment.rows[k]["decisionScore"] = <<0>>
          /\ response.attachment.rows[k]["Grade"] = "C+"
          /\ response.attachment.rows[l]["playerFullName"] = CyPoe
          /\ response.attachment.rows[l]["decisionScore"] = NaN
          /\ response.attachment.rows[l]["Grade"] = NaNCat
    /\ \E i \in 1..Len(scores) : scores[i].Batter = RoyBo

\* C5: the rows of the workbook are in descending order of decisionScore, every
\* row without a decisionScore after every row with one, and rows of equal
\* decisionScore, like rows without one, in the order of the input table.
C5_StableDescending ==
    Sent =>
        \A k, l \in 1..Len(response.attachment.rows) : k < l =>
            LET a == response.attachment.rows[k]["decisionScore"]
                b == response.attachment.rows[l]["decisionScore"]
            IN  /\ a = NaN => b = NaN
                /\ a # NaN /\ b # NaN => a[1] >= b[1]
                /\ (a = NaN /\ b = NaN) \/ (a # NaN /\ b # NaN /\ a[1] = b[1])
                      => response.attachment.index[k] < response.attachment.index[l]

\* A stage of this upload cannot complete: a file that does not parse, or a
\* player table without playerFullName or playerFirstName.
StageFails ==
    \/ \E i \in 1..Len(trackman_files) : ~trackman_files[i].parses
    \/ ~trumedia_file.parses
    \/ "playerFullName" \notin Range(trumedia_file.columns)
    \/ "playerFirstName" \notin Range(trumedia_file.columns)

\* C6: the handler answers with a workbook only when every stage has completed,
\* each once; a run in which a stage fails (a file that does not parse, a
\* player table without playerFullName or playerFirstName) ends with the
\* plain-text 500 answer and no workbook, whole or partial; before the run ends
\* nothing is answered, and no stage runs twice.
C6_AllOrNothing ==
    /\ \A st \in Steps : calls[st] <= 1
    /\ pc # "done" => response = None
    /\ pc = "done" => response.status \in {200, 500}
    /\ response.status = 200 =>
          /\ ~StageFails
          /\ \A st \in Steps : calls[st] = 1
          /\ response.attachment = Workbook(trumedia_final)
    /\ response.status = 500 => response.attachment = <<>> /\ response.text # ""
    /\ pc = "done" /\ StageFails => response.status = 500

\* The merge has completed and the table has no playerFirstName: the run ends
\* with the 500 answer and the merged table is not sent.
C6_Witness ==
    /\ pc = "done"
    /\ calls["merge"] = 1
    /\ calls["reorder"] = 1
    /\ trumedia_df.rows # <<>>
    /\ "playerFirstName" \notin Range(trumedia_file.columns)
    /\ response = ErrorResponse("ValueError")

\* C7: when every Trackman file has a Batter column, whatever subset of the
\* other recognized columns each has, load_and_filter_trackman and
\* calculate_batter_scores complete without error, and a column no file has
\* adds 0 to the score.
C7_AnySubsetAccepted ==
    (\A i \in 1..Len(trackman_files) :
        trackman_files[i].parses /\ "Batter" \in Range(trackman_files[i].columns))
    => /\ calls["score"] = 1 => pc # "done" \/ calls["score_df"] = 1
       /\ calls["load"] = 1 => pc # "done" \/ calls["score"] = 1
       /\ Scored => \A i \in 1..Len(scores) :
             scores[i].decisionScore = SumOf(combined_df.rows, scores[i].Batter)

\* The positions of a name in a column order
At(cols, c) == {i \in 1..Len(cols) : cols[i] = c}

Added == {"Grade", "decisionScore", "NormalizedName"}

KeepsOrder(orig, out) ==
    \A i, j \in 1..Len(orig) : i < j =>
        \A k \in At(out, orig[i]) : \A l \in At(out, orig[j]) : k < l

\* C8: in the workbook Grade and decisionScore, in that order, come immediately
\* after playerFirstName; every column of the input table is there exactly
\* once, the input columns in their input order; NormalizedName is not there.
C8_ColumnsAfterFirstName ==
    Sent =>
        LET out == response.attachment.columns
            orig == trumedia_file.columns
        IN  /\ \A i \in At(out, "playerFirstName") :
                  /\ i + 2 <= Len(out)
                  /\ out[i + 1] = "Grade"
                  /\ out[i + 2] = "decisionScore"
            /\ \A c \in Range(orig) : Cardinality(At(out, c)) = 1
            /\ KeepsOrder(orig, out)
            /\ "NormalizedName" \notin Range(out)

\* C8, for the player tables that have no column named Grade, decisionScore or
\* NormalizedName: the placement holds as stated.
C8_WithoutAddedNames ==
    Range(trumedia_file.columns) \cap Added = {} => C8_ColumnsAfterFirstName

\* C8, what every player table gets: NormalizedName is not in the workbook;
\* every input column not named Grade, decisionScore or NormalizedName is there
\* exactly once with its cells, these columns in their input order; Grade and
\* decisionScore are there exactly once, adjacent and in that order, after
\* playerFirstName, one column further right for each input column of one of
\* the three names that comes before playerFirstName (up to the end of the
\* table).
C8_PlacementInGeneral ==
    Sent =>
        LET out == response.attachment.columns
            orig == SelectSeq(trumedia_file.columns, LAMBDA c : c \notin Added)
            first == CHOOSE i \in 1..Len(trumedia_file.columns) :
                         trumedia_file.columns[i] = "playerFirstName"
            ahead == Cardinality({i \in 1..(first - 1) :
                                     trumedia_file.columns[i] \in Added})
            after == Cardinality({i \in (first + 1)..Len(trumedia_file.columns) :
                                     trumedia_file.columns[i] \notin Added})
        IN  /\ "NormalizedName" \notin Range(out)
            /\ Len(out) = Len(orig) + 2
            /\ \A c \in Range(orig) : Cardinality(At(out, c)) = 1
            /\ KeepsOrder(orig, out)
            /\ Cardinality(At(out, "Grade")) = 1
            /\ Cardinality(At(out, "decisionScore")) = 1
            /\ \A f \in At(out, "playerFirstName") : \A g \in At(out, "Grade") :
                  /\ out[g + 1] = "decisionScore"
                  /\ g = f + 1 + Min(ahead, after)
            /\ \A k \in 1..Len(response.attachment.rows) : \A c \in Range(orig) :
                  \E i \in 1..Len(trumedia_file.rows) :
                      /\ response.attachment.index[k] = i - 1
                      /\ response.attachment.rows[k][c] = trumedia_file.rows[i][c]

\* An input table with Grade before playerFirstName: Grade and decisionScore end
\* up after teamName.
C8_Witness ==
    /\ Sent
    /\ trumedia_file.columns = <<"Grade", "playerFullName", "playerFirstName", "teamName">>
    /\ response.attachment.columns =
          <<"playerFullName", "playerFirstName", "teamName", "Grade", "decisionScore">>

\* C5, what every run gets: descending order of decisionScore, the rows without
\* a decisionScore last and in their input order; the order of rows of equal
\* decisionScore is left open.
C5_DescendingMissingLast ==
    Sent =>
        \A k, l \in 1..Len(response.attachment.rows) : k < l =>
            LET a == response.attachment.rows[k]["decisionScore"]
                b == response.attachment.rows[l]["decisionScore"]
            IN  /\ a = NaN => b = NaN
                /\ a # NaN /\ b # NaN => a[1] >= b[1]
                /\ a = NaN /\ b = NaN
                      => response.attachment.index[k] < response.attachment.index[l]

\* Two players matched to the same score leave the sort in the reverse of
\* their input order.
C5_Witness ==
    /\ Sent
    /\ Len(response.attachment.rows) = 2
    /\ response.attachment.rows[1]["decisionScore"] = response.attachment.rows[2]["decisionScore"]
    /\ response.attachment.rows[1]["decisionScore"] # NaN
    /\ response.attachment.index = <<1, 0>>

\* A file with Batter and KorBB and no PitchCall: the run ends in the scoring
\* step with the 500 answer.
C7_Witness ==
    /\ pc = "done"
    /\ Len(trackman_files) = 1
    /\ trackman_files[1].columns = <<"Batter", "KorBB">>
    /\ calls["score"] = 1
    /\ calls["score_df"] = 0
    /\ response = ErrorResponse("KeyError")

====
